---- MODULE Spec2Model ----
(***************************************************************************)
(* A model of the poll engine of freedit (src/src/controller/poll.rs):     *)
(* the definition parser (Poll::from_markdown), the response decoder       *)
(* (PollFormQuery::parse), the form renderer (Poll::html), the vote        *)
(* handler (post_pollvote) and the results handler (poll_results) over the *)
(* "poll_contribution" tree.                                               *)
(*                                                                         *)
(* Strings are sequences of character codes (97 = a, 98 = b, 34 = the      *)
(* double quote, 60 = <, 96 = the backtick); byte strings are sequences of *)
(* numbers below 251, where bincode's varint is one byte.                  *)
(***************************************************************************)
EXTENDS Integers, Sequences, FiniteSets, TLC

VARIABLES posts, tree, unreadable, reqs, written, nvotes, out, fin, fout

vars == <<posts, tree, unreadable, reqs, written, nvotes, out, fin, fout>>

(***************************************************************************)
(* Option and Result values.                                               *)
(***************************************************************************)
None == [some |-> FALSE]

Some(x) == [some |-> TRUE, v |-> x]

Ok(x) == [ok |-> TRUE, v |-> x]

Err(e) == [ok |-> FALSE, e |-> e]

Max(S) == CHOOSE x \in S : \A y \in S : y <= x

Min(S) == CHOOSE x \in S : \A y \in S : x <= y

(***************************************************************************)
(* The schema: Poll and PollQuestion, and the answers PollResponse.        *)
(***************************************************************************)
TextQ(q) == [kind |-> "Text", question |-> q]

ChoiceQ(q, opts, m) == [kind |-> "Choice", question |-> q, options |-> opts, multiple |-> m]

Poll(t, es) == [title |-> t, entries |-> es]

Text(s) == [tag |-> "Text", text |-> s]

SingleChoice(n) == [tag |-> "SingleChoice", idx |-> n]

MultipleChoice(s) == [tag |-> "MultipleChoice", idxs |-> s]

(***************************************************************************)
(* str::split_once: the split at the first occurrence of the pattern,      *)
(* found by a scan from the left.                                          *)
(***************************************************************************)
RECURSIVE find(_, _, _)
find(s, pat, i) ==
    IF i + Len(pat) - 1 > Len(s) THEN 0
    ELSE IF SubSeq(s, i, i + Len(pat) - 1) = pat THEN i
    ELSE find(s, pat, i + 1)

RECURSIVE rfind(_, _, _)
rfind(s, pat, i) ==
    IF i < 1 THEN 0
    ELSE IF i + Len(pat) - 1 <= Len(s) /\ SubSeq(s, i, i + Len(pat) - 1) = pat THEN i
    ELSE rfind(s, pat, i - 1)

\* str::rsplit_once: the split at the last occurrence
rsplit_once(s, pat) ==
    LET i == rfind(s, pat, Len(s))
    IN  IF i = 0 THEN None
        ELSE Some([before |-> SubSeq(s, 1, i - 1),
                   after  |-> SubSeq(s, i + Len(pat), Len(s))])

split_once(s, pat) ==
    LET i == find(s, pat, 1)
    IN  IF i = 0 THEN None
        ELSE Some([before |-> SubSeq(s, 1, i - 1),
                   after  |-> SubSeq(s, i + Len(pat), Len(s))])

\* "```survey"
OpenMarker == <<96, 96, 96, 115, 117, 114, 118, 101, 121>>

\* "```"
CloseMarker == <<96, 96, 96>>

(***************************************************************************)
(* The sample schemas.  toml::from_str is a library: the TOML source of    *)
(* sample schema k is abstracted as the one symbol k, and every other text *)
(* (the empty one included, which lacks the required title) is malformed.  *)
(***************************************************************************)
SamplePolls ==
    << Poll(<<60>>, << TextQ(<<97>>) >>),
       Poll(<<97>>, << ChoiceQ(<<97>>, <<<<97>>, <<34>>>>, TRUE),
                       ChoiceQ(<<98>>, <<<<97>>, <<98>>>>, FALSE) >>),
       Poll(<<97>>, << ChoiceQ(<<97>>, << >>, FALSE) >>) >>

from_toml(toml) ==
    IF Len(toml) = 1 /\ toml[1] \in 1..Len(SamplePolls)
    THEN Ok(SamplePolls[toml[1]])
    ELSE Err("Error parsing survey")

from_markdown(content) ==
    LET a == split_once(content, OpenMarker)
    IN  IF a.some
        THEN LET b == split_once(a.v.after, CloseMarker)
             IN  IF b.some THEN Some(from_toml(b.v.before)) ELSE None
        ELSE None

(***************************************************************************)
(* Field names: format!("q{i}") and format!("q{i}_{o}").                   *)
(***************************************************************************)
RECURSIVE Decimal(_)
Decimal(n) == IF n < 10 THEN <<48 + n>> ELSE Decimal(n \div 10) \o <<48 + (n % 10)>>

QName(i) == <<113>> \o Decimal(i)

QOptName(i, o) == <<113>> \o Decimal(i) \o <<95>> \o Decimal(o)

(***************************************************************************)
(* PollFormQuery::parse.  A submission is the sequence of (name, value)    *)
(* pairs that form_urlencoded::parse yields from the body; collecting them *)
(* into a HashMap keeps the last value of a repeated name.                 *)
(***************************************************************************)
results_get(form, name) ==
    LET hits == {j \in 1..Len(form) : form[j][1] = name}
    IN  IF hits = {} THEN None ELSE Some(form[Max(hits)][2])

results_contains_key(form, name) == \E j \in 1..Len(form) : form[j][1] = name

\* Iterator::rposition: the last index (from 0) of an equal element
rposition(options, selected) ==
    LET hits == {j \in 1..Len(options) : options[j] = selected}
    IN  IF hits = {} THEN None ELSE Some(Max(hits) - 1)

\* Iterator::position: the first index (from 0) of an equal element
position(options, selected) ==
    LET hits == {j \in 1..Len(options) : options[j] = selected}
    IN  IF hits = {} THEN None ELSE Some(Min(hits) - 1)

unwrap_or(opt, d) == IF opt.some THEN opt.v ELSE d

RECURSIVE selected_options(_, _, _, _)
selected_options(form, i, n, o) ==
    IF o >= n THEN << >>
    ELSE (IF results_contains_key(form, QOptName(i, o)) THEN <<o>> ELSE << >>)
         \o selected_options(form, i, n, o + 1)

parse_entry(form, i, entry) ==
    IF entry.kind = "Text"
    THEN Text(unwrap_or(results_get(form, QName(i)), << >>))
    ELSE IF entry.multiple
         THEN MultipleChoice(selected_options(form, i, Len(entry.options), 0))
         ELSE LET selected == unwrap_or(results_get(form, QName(i)), << >>)
              IN  SingleChoice(unwrap_or(position(entry.options, selected), 0))

parse(form, poll) ==
    Ok([j \in 1..Len(poll.entries) |-> parse_entry(form, j - 1, poll.entries[j])])

(***************************************************************************)
(* Poll::html.  The fragment is the sequence of the pieces pushed onto the *)
(* string, each with the text that format! interpolates into it as it is   *)
(* (format!("{}", s) writes s unchanged).  Indexing the prior record,      *)
(* v.0[i], panics when the record has no entry i.                          *)
(***************************************************************************)
Piece(el, name, text, checked) == [el |-> el, name |-> name, text |-> text, checked |-> checked]

\* v.0[i] is out of bounds
index_panics(voted, i) == voted.some /\ i >= Len(voted.v)

text_value(voted, i) ==
    IF voted.some /\ voted.v[i + 1].tag = "Text" THEN voted.v[i + 1].text ELSE << >>

multiple_checked(voted, i, o) ==
    /\ voted.some
    /\ voted.v[i + 1].tag = "MultipleChoice"
    /\ \E j \in 1..Len(voted.v[i + 1].idxs) : voted.v[i + 1].idxs[j] = o

single_checked(voted, i, o) ==
    IF voted.some
    THEN voted.v[i + 1].tag = "SingleChoice" /\ voted.v[i + 1].idx = o
    ELSE o = 0

option_html(voted, i, entry, o) ==
    << IF entry.multiple
       THEN Piece("checkbox", QOptName(i, o), << >>, multiple_checked(voted, i, o))
       ELSE Piece("radio", QName(i), entry.options[o + 1], single_checked(voted, i, o)),
       Piece("optlabel", QOptName(i, o), entry.options[o + 1], FALSE) >>

RECURSIVE options_html(_, _, _, _)
options_html(voted, i, entry, o) ==
    IF o >= Len(entry.options) THEN << >>
    ELSE option_html(voted, i, entry, o) \o options_html(voted, i, entry, o + 1)

\* the pieces of one entry, or the panic of the first v.0[i] it evaluates
entry_html(voted, i, entry) ==
    IF entry.kind = "Text"
    THEN IF index_panics(voted, i) THEN [panic |-> TRUE, els |-> << >>]
         ELSE [panic |-> FALSE,
               els |-> << Piece("label", QName(i), entry.question, FALSE),
                          Piece("text", QName(i), text_value(voted, i), FALSE) >>]
    ELSE IF Len(entry.options) > 0 /\ index_panics(voted, i)
         THEN [panic |-> TRUE, els |-> << >>]
         ELSE [panic |-> FALSE,
               els |-> << Piece("b", << >>, entry.question, FALSE) >>
                       \o options_html(voted, i, entry, 0)
                       \o << Piece("/ul", << >>, << >>, FALSE) >>]

RECURSIVE entries_html(_, _, _)
entries_html(voted, entries, i) ==
    IF i >= Len(entries) THEN [panic |-> FALSE, els |-> << >>]
    ELSE LET e == entry_html(voted, i, entries[i + 1])
         IN  IF e.panic THEN e
             ELSE LET r == entries_html(voted, entries, i + 1)
                  IN  IF r.panic THEN r ELSE [panic |-> FALSE, els |-> e.els \o r.els]

html(poll, iid, pid, voted) ==
    LET body == entries_html(voted, poll.entries, 0)
    IN  IF body.panic THEN body
        ELSE [panic |-> FALSE,
              els |-> << Piece("h1", << >>, poll.title, FALSE),
                         Piece("form", <<iid, pid>>, << >>, FALSE) >>
                      \o body.els
                      \o << Piece("submit", << >>, << >>, FALSE) >>]

(***************************************************************************)
(* What submitting a rendered form untouched sends: one field per text     *)
(* input, per checked radio button and per checked checkbox.  The value of *)
(* an input is what the markup value="{txt}" delimits: the text up to the  *)
(* first double quote in it, the quote that ends the attribute.            *)
(***************************************************************************)
attr_value(txt) ==
    LET quotes == {j \in 1..Len(txt) : txt[j] = 34}
    IN  IF quotes = {} THEN txt ELSE SubSeq(txt, 1, Min(quotes) - 1)

default_submission(els) ==
    LET Sent(p) == p.el = "text" \/ (p.el \in {"radio", "checkbox"} /\ p.checked)
        sent == SelectSeq(els, Sent)
    IN  [j \in 1..Len(sent) |->
            <<sent[j].name,
              IF sent[j].el = "checkbox" THEN <<111, 110>> ELSE attr_value(sent[j].text)>>]

(***************************************************************************)
(* The store.  u32_to_ivec (db_utils) is the four big-endian bytes of the  *)
(* number; a sled tree is a map from byte keys to byte values that is      *)
(* scanned in the lexicographic order of its keys.                         *)
(***************************************************************************)
u32_to_ivec(n) ==
    << (n \div 16777216) % 256, (n \div 65536) % 256, (n \div 256) % 256, n % 256 >>

\* &[u32_to_ivec(pid), u32_to_ivec(claim.uid)].concat()
poll_key_pid_only(pid, uid) == u32_to_ivec(pid)

poll_key(pid, uid) == u32_to_ivec(pid) \o u32_to_ivec(uid)

insert_if_absent(t, k, v) ==
    [x \in DOMAIN t \cup {k} |-> IF x \in DOMAIN t THEN t[x] ELSE v]

insert(t, k, v) == [x \in DOMAIN t \cup {k} |-> IF x = k THEN v ELSE t[x]]

starts_with(k, prefix) == Len(k) >= Len(prefix) /\ SubSeq(k, 1, Len(prefix)) = prefix

RECURSIVE LexLess(_, _)
LexLess(a, b) ==
    IF a = << >> THEN b # << >>
    ELSE IF b = << >> THEN FALSE
    ELSE IF Head(a) # Head(b) THEN Head(a) < Head(b)
    ELSE LexLess(Tail(a), Tail(b))

RECURSIVE in_key_order(_, _)
in_key_order(t, keys) ==
    IF keys = {} THEN << >>
    ELSE LET k == CHOOSE x \in keys : \A y \in keys \ {x} : LexLess(x, y)
         IN  <<[key |-> k, value |-> t[k]]>> \o in_key_order(t, keys \ {k})

scan_all(t, prefix) == in_key_order(t, DOMAIN t)

scan_prefix(t, prefix) == in_key_order(t, {k \in DOMAIN t : starts_with(k, prefix)})

(***************************************************************************)
(* bincode, standard configuration: a length or an index below 251 is one  *)
(* byte, an enum is the byte of its variant followed by its payload, a     *)
(* string or a vector is its length followed by its items.                 *)
(***************************************************************************)
encode_response(r) ==
    IF r.tag = "Text" THEN <<0, Len(r.text)>> \o r.text
    ELSE IF r.tag = "SingleChoice" THEN <<1, r.idx>>
    ELSE <<2, Len(r.idxs)>> \o r.idxs

RECURSIVE encode_responses(_)
encode_responses(rs) ==
    IF rs = << >> THEN << >> ELSE encode_response(Head(rs)) \o encode_responses(Tail(rs))

encode_to_vec(rs) == <<Len(rs)>> \o encode_responses(rs)

\* one PollResponse off the front of b, with the bytes left
decode_response(b) ==
    IF Len(b) < 2 THEN Err("UnexpectedEnd")
    ELSE IF b[1] = 0
         THEN IF Len(b) < 2 + b[2] THEN Err("UnexpectedEnd")
              ELSE Ok([r |-> Text(SubSeq(b, 3, 2 + b[2])), rest |-> SubSeq(b, 3 + b[2], Len(b))])
    ELSE IF b[1] = 1
         THEN Ok([r |-> SingleChoice(b[2]), rest |-> SubSeq(b, 3, Len(b))])
    ELSE IF b[1] = 2
         THEN IF Len(b) < 2 + b[2] THEN Err("UnexpectedEnd")
              ELSE Ok([r |-> MultipleChoice(SubSeq(b, 3, 2 + b[2])),
                       rest |-> SubSeq(b, 3 + b[2], Len(b))])
    ELSE Err("UnexpectedVariant")

RECURSIVE decode_responses(_, _)
decode_responses(b, n) ==
    IF n = 0 THEN Ok(<< >>)
    ELSE LET first == decode_response(b)
         IN  IF ~first.ok THEN first
             ELSE LET others == decode_responses(first.v.rest, n - 1)
                  IN  IF ~others.ok THEN others ELSE Ok(<<first.v.r>> \o others.v)

decode_from_slice(b) ==
    IF Len(b) < 1 THEN Err("UnexpectedEnd") ELSE decode_responses(Tail(b), b[1])

(***************************************************************************)
(* The system: the posts, the poll_contribution tree, the vote requests in *)
(* flight, and the response of the handler that has just returned.         *)
(***************************************************************************)
MaxVotes == 2

MaxReqs == 2

PIDs == {1, 2}

UIDs == {1, 256}

NoClaim == 0

Reqs == 1..MaxReqs

PollDoc(k) == <<120>> \o OpenMarker \o <<k>> \o CloseMarker \o <<120>>

SystemDocs ==
    {PollDoc(k) : k \in 1..Len(SamplePolls)} \cup {OpenMarker \o <<120>> \o CloseMarker}

PostStates == {[kind |-> "Markdown", md |-> d] : d \in SystemDocs} \cup {[kind |-> "FeedInnerUrl"]}

NoPost == [kind |-> "Missing"]

SystemForms ==
    { << >>,
      << <<QName(0), <<34>>>>, <<QName(1), <<98>>>>, <<QOptName(0, 1), <<111, 110>>>> >> }

Idle == [pc |-> "idle"]

NoResponse == [op |-> "none"]

Init ==
    /\ posts = [p \in PIDs |-> IF p = 1 THEN [kind |-> "Markdown", md |-> PollDoc(1)] ELSE NoPost]
    /\ tree = << >>
    /\ unreadable = {}
    /\ reqs = [r \in Reqs |-> Idle]
    /\ written = << >>
    /\ nvotes = 0
    /\ out = NoResponse
    /\ fin = << >>
    /\ fout = NoResponse

\* the post is created or edited (the post handlers are not part of poll.rs)
EditPost(pid, post) ==
    /\ out = NoResponse
    /\ posts[pid] # post
    /\ posts' = [posts EXCEPT ![pid] = post]
    /\ UNCHANGED <<tree, unreadable, reqs, written, nvotes, out, fin, fout>>

\* post_pollvote up to the encoded response: every early return, or the
\* key and the bytes to insert
pollvote_prepare(pid, claim, form) ==
    IF claim = NoClaim THEN Err("NonLogin")
    ELSE IF posts[pid] = NoPost THEN Err("NotFound")
    ELSE IF posts[pid].kind # "Markdown" THEN Err("Post is not a poll")
    ELSE LET poll == from_markdown(posts[pid].md)
         IN  IF ~(poll.some /\ poll.v.ok) THEN Err("Post is not a poll or invalid poll")
             ELSE LET response == parse(form, poll.v.v)
                  IN  IF ~response.ok THEN Err("Invalid response")
                      ELSE Ok([poll |-> poll.v.v,
                               response |-> response.v,
                               bytes |-> encode_to_vec(response.v)])

\* post_pollvote, from the request to the encoded response
PollvoteStart(r, pid, claim, form) ==
    /\ out = NoResponse
    /\ reqs[r] = Idle
    /\ nvotes < MaxVotes
    /\ LET p == pollvote_prepare(pid, claim, form)
       IN  IF p.ok
           THEN /\ reqs' = [reqs EXCEPT ![r] = [pc |-> "insert", pid |-> pid, uid |-> claim,
                                                poll |-> p.v.poll, response |-> p.v.response,
                                                bytes |-> p.v.bytes]]
                /\ nvotes' = nvotes + 1
                /\ out' = out
           ELSE /\ reqs' = reqs
                /\ nvotes' = nvotes
                /\ out' = [op |-> "pollvote", status |-> "error", e |-> p.e]
    /\ UNCHANGED <<posts, tree, unreadable, written, fin, fout>>

\* post_pollvote, the insert and the redirect
PollvoteInsert(r) ==
    /\ out = NoResponse
    /\ reqs[r].pc = "insert"
    /\ tree' = insert(tree, poll_key(reqs[r].pid, reqs[r].uid), reqs[r].bytes)
    /\ written' = LET k == <<reqs[r].pid, reqs[r].uid>>
                   IN  [x \in DOMAIN written \cup {k} |->
                          IF x # k THEN written[x]
                          ELSE IF k \in DOMAIN written THEN Append(written[k], reqs[r].response)
                          ELSE <<reqs[r].response>>]
    /\ reqs' = [reqs EXCEPT ![r] = Idle]
    /\ out' = [op |-> "pollvote", status |-> "redirect", pid |-> reqs[r].pid,
               uid |-> reqs[r].uid, poll |-> reqs[r].poll, response |-> reqs[r].response]
    /\ UNCHANGED <<posts, unreadable, nvotes, fin, fout>>

\* the loop of poll_results: the first entry that fails to read or to decode
\* ends it with the error
RECURSIVE poll_info_skipping(_, _)
poll_info_skipping(entries, bad) ==
    IF entries = << >> THEN Ok(<< >>)
    ELSE LET entry == Head(entries)
             response == decode_from_slice(entry.value)
             others == poll_info_skipping(Tail(entries), bad)
         IN  IF entry.key \in bad \/ ~response.ok THEN others
             ELSE Ok(<<response.v>> \o others.v)

RECURSIVE poll_info(_, _)
poll_info(entries, bad) ==
    IF entries = << >> THEN Ok(<< >>)
    ELSE LET entry == Head(entries)
         IN  IF entry.key \in bad THEN Err("Error reading poll response")
             ELSE LET response == decode_from_slice(entry.value)
                  IN  IF ~response.ok THEN Err("Error decoding poll response")
                      ELSE LET others == poll_info(Tail(entries), bad)
                           IN  IF ~others.ok THEN others
                               ELSE Ok(<<response.v>> \o others.v)

\* poll_results
PollResults(pid) ==
    /\ out = NoResponse
    /\ LET info == poll_info(scan_prefix(tree, u32_to_ivec(pid)), unreadable)
       IN  out' = IF info.ok
                  THEN [op |-> "poll_results", status |-> "page", pid |-> pid, poll_info |-> info.v]
                  ELSE [op |-> "poll_results", status |-> "error", pid |-> pid, e |-> info.e]
    /\ UNCHANGED <<posts, tree, unreadable, reqs, written, nvotes, fin, fout>>

\* the prior record the post page hands to replace_content: the viewer's
\* stored vote, when there is one that decodes
prior_vote(pid, claim) ==
    LET k == poll_key(pid, claim)
    IN  IF claim # NoClaim /\ k \in DOMAIN tree /\ k \notin unreadable
           /\ decode_from_slice(tree[k]).ok
        THEN Some(decode_from_slice(tree[k]).v)
        ELSE None

\* the post page of a post with a poll: Poll::replace_content, that is html
ViewPoll(pid, claim) ==
    /\ out = NoResponse
    /\ posts[pid].kind = "Markdown"
    /\ LET poll == from_markdown(posts[pid].md)
       IN  /\ poll.some
           /\ poll.v.ok
           /\ LET voted == prior_vote(pid, claim)
                  h == html(poll.v.v, 1, pid, voted)
              IN  out' = IF h.panic
                         THEN [op |-> "view", status |-> "panic", pid |-> pid,
                               poll |-> poll.v.v, voted |-> voted]
                         ELSE [op |-> "view", status |-> "page", pid |-> pid,
                               poll |-> poll.v.v, voted |-> voted, els |-> h.els]
    /\ UNCHANGED <<posts, tree, unreadable, reqs, written, nvotes, fin, fout>>

\* the response is sent and the handler is gone
Respond ==
    /\ out # NoResponse
    /\ out' = NoResponse
    /\ UNCHANGED <<posts, tree, unreadable, reqs, written, nvotes, fin, fout>>

Next ==
    \/ \E post \in PostStates : EditPost(1, post)
    \/ EditPost(2, [kind |-> "Markdown", md |-> PollDoc(2)])
    \/ \E r \in Reqs, pid \in PIDs, claim \in UIDs \cup {NoClaim}, form \in SystemForms :
          PollvoteStart(r, pid, claim, form)
    \/ \E r \in Reqs : PollvoteInsert(r)
    \/ \E pid \in PIDs : PollResults(pid)
    \/ \E pid \in PIDs, claim \in UIDs \cup {NoClaim} : ViewPoll(pid, claim)
    \/ Respond

Spec == Init /\ [][Next]_vars

\* a stored record is damaged or becomes unreadable (disk fault, format drift)
Corrupt(k, unread) ==
    /\ out = NoResponse
    /\ k \in DOMAIN tree
    /\ k \notin unreadable
    /\ decode_from_slice(tree[k]).ok
    /\ IF unread
       THEN unreadable' = unreadable \cup {k} /\ tree' = tree
       ELSE unreadable' = unreadable
            /\ tree' = [tree EXCEPT ![k] = SubSeq(tree[k], 1, Len(tree[k]) - 1)]
    /\ UNCHANGED <<posts, reqs, written, nvotes, out, fin, fout>>

\* votes and results over the posts as they are, with faults of the store
NextFault ==
    \/ \E r \in Reqs, pid \in PIDs, claim \in UIDs \cup {NoClaim}, form \in SystemForms :
          PollvoteStart(r, pid, claim, form)
    \/ \E r \in Reqs : PollvoteInsert(r)
    \/ \E pid \in PIDs : PollResults(pid)
    \/ Respond
    \/ \E k \in DOMAIN tree, unread \in BOOLEAN : Corrupt(k, unread)

InitFault ==
    /\ posts = [p \in PIDs |-> [kind |-> "Markdown", md |-> PollDoc(IF p = 1 THEN 2 ELSE 1)]]
    /\ tree = << >>
    /\ unreadable = {}
    /\ reqs = [r \in Reqs |-> Idle]
    /\ written = << >>
    /\ nvotes = 0
    /\ out = NoResponse
    /\ fin = << >>
    /\ fout = NoResponse

SpecFault == InitFault /\ [][NextFault]_vars

(***************************************************************************)
(* The decoder and the renderer as functions: the inputs are drawn from    *)
(* bounded sets, and one step applies parse to the submission, or to the   *)
(* submission of the untouched form rendered with no prior response.       *)
(***************************************************************************)
MaxEntries == 2

MaxFields == 2

RECURSIVE SeqsUpTo(_, _)
SeqsUpTo(S, n) ==
    IF n = 0 THEN {<< >>}
    ELSE LET shorter == SeqsUpTo(S, n - 1)
         IN  shorter \cup {Append(q, x) : q \in {r \in shorter : Len(r) = n - 1}, x \in S}

OptionLists ==
    { << >>, <<<<97>>, <<98>>>>, <<<<97>>, <<97>>>>, <<<<98>>, << >>>>, <<<<97, 34>>, <<97>>>> }

Questions ==
    {TextQ(<<97>>)} \cup {ChoiceQ(<<97>>, opts, m) : opts \in OptionLists, m \in BOOLEAN}

DecodePolls == {Poll(<<97>>, es) : es \in SeqsUpTo(Questions, MaxEntries)}

FormFields ==
    {<<QName(i), v>> : i \in 0..(MaxEntries - 1), v \in {<<97>>, <<98>>}}
    \cup {<<QOptName(i, 1), <<111, 110>>>> : i \in 0..(MaxEntries - 1)}

DecodeForms == SeqsUpTo(FormFields, MaxFields)

Quiet ==
    /\ posts = [p \in PIDs |-> NoPost]
    /\ tree = << >>
    /\ unreadable = {}
    /\ reqs = [r \in Reqs |-> Idle]
    /\ written = << >>
    /\ nvotes = 0
    /\ out = NoResponse

InitDecode ==
    /\ Quiet
    /\ fin \in [poll : DecodePolls, form : DecodeForms]
    /\ fout = NoResponse

DecodeSubmission ==
    /\ fout.op = "none"
    /\ fout' = [op |-> "parse", v |-> parse(fin.form, fin.poll)]
    /\ UNCHANGED <<posts, tree, unreadable, reqs, written, nvotes, out, fin>>

DecodeDefaults ==
    /\ fout.op = "none"
    /\ LET h == html(fin.poll, 0, 0, None)
       IN  fout' = [op |-> "defaults", els |-> h.els,
                    v |-> parse(default_submission(h.els), fin.poll)]
    /\ UNCHANGED <<posts, tree, unreadable, reqs, written, nvotes, out, fin>>

NextDecode == DecodeSubmission \/ DecodeDefaults

SpecDecode == InitDecode /\ [][NextDecode]_vars

(***************************************************************************)
(* The definition parser as a function of the document text: the texts are *)
(* the concatenations of a few chunks (a backtick, a plain fence, the      *)
(* opening marker, a letter, the TOML of sample schema 1).                 *)
(***************************************************************************)
MaxChunks == 6

Chunks == {<<96>>, CloseMarker, OpenMarker, <<120>>, <<1>>}

RECURSIVE Concat(_)
Concat(ss) == IF ss = << >> THEN << >> ELSE Head(ss) \o Concat(Tail(ss))

Documents == {Concat(cs) : cs \in SeqsUpTo(Chunks, MaxChunks)}

InitMarkdown ==
    /\ Quiet
    /\ fin \in Documents
    /\ fout = NoResponse

ParseMarkdown ==
    /\ fout.op = "none"
    /\ fout' = [op |-> "from_markdown", v |-> from_markdown(fin)]
    /\ UNCHANGED <<posts, tree, unreadable, reqs, written, nvotes, out, fin>>

NextMarkdown == ParseMarkdown

SpecMarkdown == InitMarkdown /\ [][NextMarkdown]_vars

(***************************************************************************)
(* Properties of the decoder.                                              *)
(***************************************************************************)
IsSingle(e) == e.kind = "Choice" /\ ~e.multiple

HasField(form, name, value) == \E j \in 1..Len(form) : form[j] = <<name, value>>

\* the value the decoder looks up for question i: that of the last q{i}
\* field of the submission, the empty string when there is none
Looked(form, i) ==
    LET js == {j \in 1..Len(form) : form[j][1] = QName(i)}
    IN  IF js = {} THEN << >> ELSE form[Max(js)][2]

C4_DefaultRoundTrip ==
    fout.op = "defaults" =>
        /\ fout.v.ok
        /\ Len(fout.v.v) = Len(fin.poll.entries)
        /\ \A i \in 1..Len(fin.poll.entries) :
              LET e == fin.poll.entries[i]
              IN  fout.v.v[i] = IF e.kind = "Text" THEN Text(<< >>)
                                ELSE IF e.multiple THEN MultipleChoice(<< >>)
                                ELSE SingleChoice(0)

(***************************************************************************)
(* Properties of the definition parser.                                    *)
(***************************************************************************)
OpensAt(s) ==
    {i \in 1..(Len(s) - Len(OpenMarker) + 1) : SubSeq(s, i, i + Len(OpenMarker) - 1) = OpenMarker}

ClosesFrom(s, from) ==
    {j \in from..(Len(s) - Len(CloseMarker) + 1) :
        SubSeq(s, j, j + Len(CloseMarker) - 1) = CloseMarker}

\* C7: from_markdown is None exactly when the text has no opening marker or
\* no closing marker after the first opening one; otherwise it is Some of
\* from_toml of the text between the first opening marker and the first
\* closing marker after it.
C7_FirstBlock ==
    fout.op = "from_markdown" =>
        LET opens == OpensAt(fin)
        IN  IF opens = {} THEN fout.v = None
            ELSE LET p == Min(opens) + Len(OpenMarker)
                     closes == ClosesFrom(fin, p)
                 IN  IF closes = {} THEN fout.v = None
                     ELSE fout.v = Some(from_toml(SubSeq(fin, p, Min(closes) - 1)))

\* a text with two blocks, of which the first one was parsed into a schema
C7_Witness ==
    /\ fout.op = "from_markdown"
    /\ Cardinality(OpensAt(fin)) = 2
    /\ fout.v = Some(Ok(SamplePolls[1]))
    /\ \E j \in ClosesFrom(fin, Max(OpensAt(fin)) + Len(OpenMarker)) : TRUE

(***************************************************************************)
(* Properties of the vote handler, the store and the results handler.      *)
(* `written` is the history of the records inserted for each (document,    *)
(* voter); while a response is set no other handler has moved, so the      *)
(* response is compared with the store it was computed from.               *)
(***************************************************************************)
U32Of(b) == b[1] * 16777216 + b[2] * 65536 + b[3] * 256 + b[4]

Last(q) == q[Len(q)]

\* the decoded records a scan of document pid finds for voter uid
Retrieved(pid, uid) ==
    {decode_from_slice(tree[k]) :
        k \in {x \in DOMAIN tree : /\ Len(x) >= 8
                                   /\ U32Of(SubSeq(x, 1, 4)) = pid
                                   /\ U32Of(SubSeq(x, 5, 8)) = uid}}

\* C1: the store holds one record per (document, voter) that has voted, the
\* one of the most recent insert for that key, and nothing else.
C1_LastWriteWins ==
    /\ \A pid \in PIDs, uid \in UIDs :
          Retrieved(pid, uid) = IF <<pid, uid>> \in DOMAIN written
                                THEN {Ok(Last(written[<<pid, uid>>]))}
                                ELSE {}
    /\ Cardinality(DOMAIN tree) = Cardinality(DOMAIN written)

\* a voter has voted twice on a document, with different records
C1_Witness ==
    \E k \in DOMAIN written :
        /\ Len(written[k]) = 2
        /\ written[k][1] # written[k][2]
        /\ Retrieved(k[1], k[2]) = {Ok(written[k][2])}

MatchesQuestion(e, r) ==
    IF e.kind = "Text" THEN r.tag = "Text"
    ELSE IF e.multiple
         THEN /\ r.tag = "MultipleChoice"
              /\ \A j \in 1..Len(r.idxs) : r.idxs[j] < Len(e.options)
         ELSE /\ r.tag = "SingleChoice"
              /\ r.idx < Len(e.options)

\* C2: the record post_pollvote inserts has one response per entry of the
\* schema it parsed, of the matching variant, with every option index below
\* the number of options of its question.
C2_WrittenMatchesSchema ==
    (out.op = "pollvote" /\ out.status = "redirect") =>
        /\ Len(out.response) = Len(out.poll.entries)
        /\ \A i \in 1..Len(out.poll.entries) :
              MatchesQuestion(out.poll.entries[i], out.response[i])

\* C5: the results of document d list, in key order (ascending voter id, the
\* keys being big-endian), the last record of every voter who has voted on
\* d and nothing else, and are an empty page when nobody has.
C5_ResultsEnumerate ==
    out.op = "poll_results" =>
        LET voters == {u \in UIDs : <<out.pid, u>> \in DOMAIN written}
        IN  /\ out.status = "page"
            /\ Len(out.poll_info) = Cardinality(voters)
            /\ \A u \in voters :
                  out.poll_info[1 + Cardinality({w \in voters : w < u})]
                      = Last(written[<<out.pid, u>>])

\* results of a document with one vote, while another document has one too
C5_Witness ==
    /\ out.op = "poll_results"
    /\ out.status = "page"
    /\ Len(out.poll_info) = 1
    /\ Cardinality(DOMAIN tree) = 2

Damaged(k) == k \in unreadable \/ ~decode_from_slice(tree[k]).ok

\* C6: when a record under the document fails to read or to decode, the
\* results end with an error and carry no report.
C6_AbortOnBadRecord ==
    out.op = "poll_results" =>
        ( (\E k \in DOMAIN tree : U32Of(SubSeq(k, 1, 4)) = out.pid /\ Damaged(k))
            => (out.status = "error" /\ "poll_info" \notin DOMAIN out) )

\* results of a document with one sound and one damaged record
C6_Witness ==
    /\ out.op = "poll_results"
    /\ out.status = "error"
    /\ \E k1, k2 \in DOMAIN tree :
          /\ U32Of(SubSeq(k1, 1, 4)) = out.pid
          /\ U32Of(SubSeq(k2, 1, 4)) = out.pid
          /\ Damaged(k1)
          /\ ~Damaged(k2)

Changed(k) == k \notin DOMAIN tree \/ k \notin DOMAIN tree' \/ tree[k] # tree'[k]

\* C8: in every step of every interleaving the tree changes at one key at
\* most, the key of the (document, voter) of the request whose insert the
\* step is, which then holds that request's record; no key ever disappears.
C8_VoteTouchesOwnKey ==
    [][ /\ DOMAIN tree \subseteq DOMAIN tree'
        /\ \A k \in DOMAIN tree' :
              Changed(k) =>
                 \E r \in Reqs :
                    /\ reqs[r].pc = "insert"
                    /\ reqs'[r] = Idle
                    /\ Len(k) = 8
                    /\ U32Of(SubSeq(k, 1, 4)) = reqs[r].pid
                    /\ U32Of(SubSeq(k, 5, 8)) = reqs[r].uid
                    /\ decode_from_slice(tree'[k]) = Ok(reqs[r].response)
                    /\ \A x \in DOMAIN tree' \ {k} : ~Changed(x)
        /\ \A r \in Reqs :
              (reqs[r].pc = "insert" /\ reqs'[r] = Idle) =>
                  \E k \in DOMAIN tree' :
                      /\ Len(k) = 8
                      /\ U32Of(SubSeq(k, 1, 4)) = reqs[r].pid
                      /\ U32Of(SubSeq(k, 5, 8)) = reqs[r].uid
                      /\ decode_from_slice(tree'[k]) = Ok(reqs[r].response)
      ]_vars

\* two voters are voting on one poll at the same time: the insert of one is
\* done and its record is in the store while the other request is in flight
C8_Witness ==
    /\ out.op = "pollvote"
    /\ out.status = "redirect"
    /\ Retrieved(out.pid, out.uid) = {Ok(out.response)}
    /\ \E r \in Reqs :
          /\ reqs[r].pc = "insert"
          /\ reqs[r].pid = out.pid
          /\ reqs[r].uid # out.uid

MarkupSignificant == {34, 38, 60, 62}

NoRawMarkup(els) ==
    \A j \in 1..Len(els) : \A c \in 1..Len(els[j].text) : els[j].text[c] \notin MarkupSignificant

\* C9: no text interpolated into the rendered fragment carries a
\* markup-significant character.
C9_FragmentEscaped == fout.op = "defaults" => NoRawMarkup(fout.els)

\* C10: whatever votes and edits came before, viewing the poll renders the
\* form.
C10_RenderNeverFails == out.op = "view" => out.status = "page"

====
